---- MODULE Spec2Model ----
(***************************************************************************)
(* Teamspace application: the HTTP handlers of backend/cmd/server/main.go, *)
(* the session handling of backend/pkg/auth/auth.go and the lifecycle      *)
(* manager of backend/pkg/kubernetes/teamspace.go, over a namespace store  *)
(* with the semantics of the Kubernetes API (create fails on an existing   *)
(* name, delete marks a namespace with a deletion timestamp, the platform  *)
(* removes a marked namespace later).                                      *)
(*                                                                         *)
(* A handler that makes two store calls is two steps (the check, then the  *)
(* write), so that other requests and the platform can act in between.     *)
(* Every store call may fail with a transport error.                       *)
(***************************************************************************)
EXTENDS Naturals, Sequences, FiniteSets, Bags, TLC

VARIABLES
    namespaces,   \* the store: namespace name -> namespace object
    sessions,     \* per browser: the values of its "teamspace-session" cookie
    allowed,      \* AuthHandler.allowed, from the configuration
    req,          \* the requests between their two store calls (a bag)
    last,         \* the step just taken: request, store call, response
    creator,      \* history: for each namespace, the owner its create was given
    env,          \* the run's environment: who can log in, what is typed
    app           \* the state of the App component in the browser

vars == <<namespaces, sessions, allowed, req, last, creator, env, app>>

(***************************************************************************)
(* Bounds and values                                                       *)
(***************************************************************************)
NumReq == 2                     \* requests in flight at once

Nil == "<nil>"                  \* an absent map entry / a nil pointer

NameOrder == <<"a", "b", "c", "d">>       \* tenant names, in store order
AllNames == {NameOrder[i] : i \in 1..Len(NameOrder)}
AllSessions == {"s1", "s2"}
Releases == {"v1"}
FeatureSets == {"Default"}
TeamLists == {<<>>, <<"dev">>, <<"ops">>, <<"ops", "dev">>}

\* session.Values of a browser without a cookie, and of one that has been
\* through HandleLogin and HandleCallback as login.
EmptyValues ==
    [state |-> Nil, authenticated |-> Nil, access_token |-> Nil, username |-> Nil]

LoggedIn(login) ==
    [state |-> "st1", authenticated |-> "true", access_token |-> "token",
     username |-> login]

\* The clock readings of a create (the server's time.Now() and the
\* platform's at the creation) where time is not looked at.
Epoch == [now |-> "t0", stamp |-> "t0"]

\* The bounded environments a run starts in: the logins the identity
\* provider knows, the tenant names clients type, the browsers and their
\* cookies at the start, the requests the clients send, the OAuth state
\* strings rand.Read can produce, the configured allow-list; whether store
\* calls can fail in transit, and whether an owner's clients send their
\* create requests one after the other; the clock readings a create can
\* meet.
QuotaWorld ==
    [logins |-> {"alice"}, names |-> {"a", "b", "c", "d"},
     browsers |-> {"s1"},
     cookies |-> [s \in AllSessions |-> IF s = "s1" THEN LoggedIn("alice")
                                        ELSE EmptyValues],
     ops |-> {"list", "create", "delete"},
     tokens |-> {"st1"}, allowed |-> <<>>,
     faults |-> TRUE, serial |-> FALSE, clocks |-> {Epoch}]
OwnerWorld ==
    [logins |-> {"alice", "bob"}, names |-> {"a", "b"},
     browsers |-> {"s1", "s2"},
     cookies |-> [s \in AllSessions |-> IF s = "s1" THEN LoggedIn("alice")
                                        ELSE LoggedIn("bob")],
     ops |-> {"list", "create", "delete"},
     tokens |-> {"st1"}, allowed |-> <<>>,
     faults |-> TRUE, serial |-> FALSE, clocks |-> {Epoch}]
SecretWorld ==
    [logins |-> {"alice", "bob"}, names |-> {"a"},
     browsers |-> {"s1", "s2"},
     cookies |-> [s \in AllSessions |-> IF s = "s1" THEN LoggedIn("alice")
                                        ELSE LoggedIn("bob")],
     ops |-> {"create", "delete", "kubeconfig"},
     tokens |-> {"st1"}, allowed |-> <<>>,
     faults |-> TRUE, serial |-> FALSE, clocks |-> {Epoch}]
AuthWorld ==
    [logins |-> {"alice", ""}, names |-> {"a"},
     browsers |-> {"s1", "s2"},
     cookies |-> [s \in AllSessions |-> EmptyValues],
     ops |-> {"login", "callback", "logout", "expire",
              "list", "create", "delete", "kubeconfig"},
     tokens |-> {"st1"}, allowed |-> <<"dev">>,
     faults |-> TRUE, serial |-> FALSE, clocks |-> {Epoch}]
Worlds == {QuotaWorld, OwnerWorld, SecretWorld, AuthWorld}

\* Here the server's clock and the platform's are read at each create.
Times == {"t1", "t2"}
ClockWorld ==
    [logins |-> {"alice"}, names |-> {"a", "b"},
     browsers |-> {"s1"},
     cookies |-> [s \in AllSessions |-> IF s = "s1" THEN LoggedIn("alice")
                                        ELSE EmptyValues],
     ops |-> {"list", "create", "delete"},
     tokens |-> {"st1"}, allowed |-> <<>>,
     faults |-> FALSE, serial |-> FALSE, clocks |-> [now : Times, stamp : Times]]

\* Here the requests are those of the web client of one signed-in user.
ClientWorld ==
    [logins |-> {"alice"}, names |-> {"a"},
     browsers |-> {"s1"},
     cookies |-> [s \in AllSessions |-> IF s = "s1" THEN LoggedIn("alice")
                                        ELSE EmptyValues],
     ops |-> {"app"},
     tokens |-> {"st1"}, allowed |-> <<>>,
     faults |-> TRUE, serial |-> FALSE, clocks |-> {Epoch}]

(***************************************************************************)
(* The namespace store (Kubernetes API semantics)                          *)
(***************************************************************************)
Exists(nss, ns) == ns \in DOMAIN nss

Label(obj, key) == IF key \in DOMAIN obj.labels THEN obj.labels[key] ELSE ""

Terminating(nss, ns) == Exists(nss, ns) /\ nss[ns].deletionTimestamp # Nil

\* (variant) a create that replaces the namespace of the same name
StoreCreateOverwrite(nss, ns, labels, annotations, stamp) ==
    [err |-> Nil,
     nss |-> [k \in DOMAIN nss \cup {ns} |->
                IF k = ns
                THEN [labels |-> labels, annotations |-> annotations,
                      creationTimestamp |-> stamp, deletionTimestamp |-> Nil]
                ELSE nss[k]]]

\* Namespaces().Create: AlreadyExists when the name is taken (a terminating
\* namespace still holds its name), otherwise the object is stored whole,
\* with the platform's clock reading (stamp) as its creationTimestamp.
StoreCreate(nss, ns, labels, annotations, stamp) ==
    IF Exists(nss, ns)
    THEN [err |-> "AlreadyExists", nss |-> nss]
    ELSE [err |-> Nil,
          nss |-> [k \in DOMAIN nss \cup {ns} |->
                     IF k = ns
                     THEN [labels |-> labels, annotations |-> annotations,
                           creationTimestamp |-> stamp,
                           deletionTimestamp |-> Nil]
                     ELSE nss[k]]]

\* (variant) a namespace already marked refuses a second delete
StoreDeleteOnce(nss, ns) ==
    IF ~Exists(nss, ns)
    THEN [err |-> "NotFound", nss |-> nss]
    ELSE IF nss[ns].deletionTimestamp # Nil
         THEN [err |-> "Conflict", nss |-> nss]
    ELSE [err |-> Nil, nss |-> [nss EXCEPT ![ns].deletionTimestamp = "set"]]

\* Namespaces().Delete: NotFound when absent; marks the namespace with a
\* deletion timestamp; a namespace already marked keeps its timestamp.
StoreDelete(nss, ns) ==
    IF ~Exists(nss, ns)
    THEN [err |-> "NotFound", nss |-> nss]
    ELSE [err |-> Nil,
          nss |-> [nss EXCEPT ![ns].deletionTimestamp =
                     IF @ = Nil THEN "set" ELSE @]]

\* Namespaces().Get
StoreGet(nss, ns) ==
    IF Exists(nss, ns)
    THEN [err |-> Nil, obj |-> nss[ns]]
    ELSE [err |-> "NotFound", obj |-> Nil]

(***************************************************************************)
(* TeamspaceManager (pkg/kubernetes/teamspace.go)                          *)
(***************************************************************************)
NamespaceOf(name) == "teamspace-" \o name

NamespaceOrder == [i \in 1..Len(NameOrder) |-> NamespaceOf(NameOrder[i])]

\* The namespaces of the cluster that are not teamspaces: no labels of
\* the manager, never created or deleted through it.
SystemNamespaces ==
    "default" :> [labels |-> <<>>, annotations |-> <<>>,
                  creationTimestamp |-> "t0", deletionTimestamp |-> Nil]

\* The store's key order.
StoreOrder == <<"default">> \o NamespaceOrder

\* Namespaces().List with a label selector: the matching namespaces, in
\* the store's key order. sel is a set of <<key, value>> pairs.
StoreList(nss, sel) ==
    LET Match(ns) == /\ Exists(nss, ns)
                     /\ \A kv \in sel : /\ kv[1] \in DOMAIN nss[ns].labels
                                        /\ nss[ns].labels[kv[1]] = kv[2]
    IN  SelectSeq(StoreOrder, Match)

\* (variant) the deletion timestamp of the namespace not copied
TeamspaceOfUnmarked(nss, ns, owner) ==
    [name |-> Label(nss[ns], "name"),
     namespace |-> ns,
     owner |-> owner,
     createdAt |-> nss[ns].creationTimestamp,
     deletionTimestamp |-> Nil]

\* The Teamspace built from a listed namespace; owner is what the caller
\* puts in the Owner field.
TeamspaceOf(nss, ns, owner) ==
    [name |-> Label(nss[ns], "name"),
     namespace |-> ns,
     owner |-> owner,
     createdAt |-> nss[ns].creationTimestamp,
     deletionTimestamp |-> nss[ns].deletionTimestamp]

ListTeamspaces(nss) ==
    LET items == StoreList(nss, {<<"teamspace", "true">>})
    IN  [i \in 1..Len(items) |->
           TeamspaceOf(nss, items[i], Label(nss[items[i]], "owner"))]

\* (variant) the owner left out of the label selector
ListTeamspacesByOwnerUnfiltered(nss, owner) ==
    LET items == StoreList(nss, {<<"teamspace", "true">>})
    IN  [i \in 1..Len(items) |-> TeamspaceOf(nss, items[i], owner)]

ListTeamspacesByOwner(nss, owner) ==
    LET items == StoreList(nss, {<<"teamspace", "true">>, <<"owner", owner>>})
    IN  [i \in 1..Len(items) |-> TeamspaceOf(nss, items[i], owner)]

\* (variant) the two string arguments taken in the other order
CreateLabelsSwapped(name, owner) ==
    [teamspace |-> "true", owner |-> name, name |-> owner]

\* The object CreateTeamspace sends to Namespaces().Create.
CreateLabels(name, owner) ==
    [teamspace |-> "true", owner |-> owner, name |-> name]

\* (variant) the feature-set annotation left out
CreateAnnotationsReleaseOnly(release, featureSet) ==
    "release" :> release

CreateAnnotations(release, featureSet) ==
    ("release" :> release) @@ ("feature-set" :> featureSet)

\* (variant) AlreadyExists taken for success
CreateTeamspaceIdempotent(nss, name, owner, release, featureSet, ok, clock) ==
    LET r == StoreCreate(nss, NamespaceOf(name), CreateLabels(name, owner),
                         CreateAnnotations(release, featureSet), clock.stamp)
    IN  IF ~ok THEN [err |-> "Unavailable", nss |-> nss, teamspace |-> Nil]
        ELSE [err |-> Nil, nss |-> r.nss,
              teamspace |-> [name |-> name, namespace |-> NamespaceOf(name),
                             owner |-> owner, createdAt |-> clock.now,
                             deletionTimestamp |-> Nil]]

\* CreateTeamspace: one Create call; ok = FALSE is a transport failure.
\* clock holds the two clock readings of the call: time.Now() of the
\* server (now) and the platform's at the creation (stamp).
CreateTeamspace(nss, name, owner, release, featureSet, ok, clock) ==
    LET r == StoreCreate(nss, NamespaceOf(name), CreateLabels(name, owner),
                         CreateAnnotations(release, featureSet), clock.stamp)
    IN  IF ~ok THEN [err |-> "Unavailable", nss |-> nss, teamspace |-> Nil]
        ELSE IF r.err # Nil THEN [err |-> r.err, nss |-> nss, teamspace |-> Nil]
        ELSE [err |-> Nil, nss |-> r.nss,
              teamspace |-> [name |-> name, namespace |-> NamespaceOf(name),
                             owner |-> owner, createdAt |-> clock.now,
                             deletionTimestamp |-> Nil]]

\* (variant) the call returns once the namespace is gone
DeleteTeamspaceBlocking(nss, name, ok) ==
    IF ~ok THEN [err |-> "Unavailable", nss |-> nss]
    ELSE IF ~Exists(nss, NamespaceOf(name)) THEN [err |-> "NotFound", nss |-> nss]
    ELSE [err |-> Nil,
          nss |-> [k \in DOMAIN nss \ {NamespaceOf(name)} |-> nss[k]]]

\* (variant) the Delete call applied and an error returned
DeleteTeamspaceLostAnswer(nss, name, ok) ==
    IF ~ok THEN [err |-> "Unavailable", nss |-> StoreDelete(nss, NamespaceOf(name)).nss]
    ELSE StoreDelete(nss, NamespaceOf(name))

\* (variant) success reported without the Delete call
DeleteTeamspaceUnsent(nss, name, ok) ==
    IF ~ok THEN [err |-> "Unavailable", nss |-> nss]
    ELSE IF ~Exists(nss, NamespaceOf(name)) THEN [err |-> "NotFound", nss |-> nss]
    ELSE [err |-> Nil, nss |-> nss]

\* DeleteTeamspace: one Delete call.
DeleteTeamspace(nss, name, ok) ==
    IF ~ok THEN [err |-> "Unavailable", nss |-> nss]
    ELSE StoreDelete(nss, NamespaceOf(name))

\* (variant) any identity taken for the owner of an existing namespace
IsTeamspaceOwnerAnyone(nss, name, username, ok) ==
    LET g == StoreGet(nss, NamespaceOf(name))
    IN  IF ~ok THEN [isOwner |-> FALSE, err |-> "Unavailable"]
        ELSE IF g.err # Nil THEN [isOwner |-> FALSE, err |-> g.err]
        ELSE [isOwner |-> TRUE, err |-> Nil]

\* (variant) a namespace marked for deletion read as not found
IsTeamspaceOwnerActiveOnly(nss, name, username, ok) ==
    LET g == StoreGet(nss, NamespaceOf(name))
    IN  IF ~ok THEN [isOwner |-> FALSE, err |-> "Unavailable"]
        ELSE IF g.err # Nil THEN [isOwner |-> FALSE, err |-> g.err]
        ELSE IF g.obj.deletionTimestamp # Nil
             THEN [isOwner |-> FALSE, err |-> "NotFound"]
        ELSE IF "owner" \notin DOMAIN g.obj.labels
             THEN [isOwner |-> FALSE, err |-> "NoOwnerLabel"]
        ELSE [isOwner |-> g.obj.labels.owner = username, err |-> Nil]

\* (variant) ownership of any teamspace taken for ownership of this one
IsTeamspaceOwnerAnyName(nss, name, username, ok) ==
    LET g == StoreGet(nss, NamespaceOf(name))
    IN  IF ~ok THEN [isOwner |-> FALSE, err |-> "Unavailable"]
        ELSE IF g.err # Nil THEN [isOwner |-> FALSE, err |-> g.err]
        ELSE [isOwner |-> \E ns \in DOMAIN nss :
                            /\ "owner" \in DOMAIN nss[ns].labels
                            /\ nss[ns].labels.owner = username,
              err |-> Nil]

\* (variant) a failed Get read as ownership
IsTeamspaceOwnerFailOpen(nss, name, username, ok) ==
    LET g == StoreGet(nss, NamespaceOf(name))
    IN  IF ~ok THEN [isOwner |-> FALSE, err |-> "Unavailable"]
        ELSE IF g.err # Nil THEN [isOwner |-> TRUE, err |-> Nil]
        ELSE IF "owner" \notin DOMAIN g.obj.labels
             THEN [isOwner |-> FALSE, err |-> "NoOwnerLabel"]
        ELSE [isOwner |-> g.obj.labels.owner = username, err |-> Nil]

\* IsTeamspaceOwner: one Get call, then the owner label against username.
IsTeamspaceOwner(nss, name, username, ok) ==
    LET g == StoreGet(nss, NamespaceOf(name))
    IN  IF ~ok THEN [isOwner |-> FALSE, err |-> "Unavailable"]
        ELSE IF g.err # Nil THEN [isOwner |-> FALSE, err |-> g.err]
        ELSE IF "owner" \notin DOMAIN g.obj.labels
             THEN [isOwner |-> FALSE, err |-> "NoOwnerLabel"]
        ELSE [isOwner |-> g.obj.labels.owner = username, err |-> Nil]

\* GetKubeconfig: one Secrets(namespace).Get call. sec is what the store
\* holds under "teamspace-<name>-kubeconfig": "absent", "nofield" (no
\* "kubeconfig" key in its data) or "data"; a secret lives in a namespace,
\* so there is none when the namespace is absent. A missing key reads as
\* nil from the Go map and is returned with no error.
GetKubeconfig(nss, name, sec, ok) ==
    LET ns == NamespaceOf(name)
    IN  IF ~ok THEN [data |-> Nil, err |-> "Unavailable"]
        ELSE IF ~Exists(nss, ns) \/ sec = "absent"
             THEN [data |-> Nil, err |-> "NotFound"]
        ELSE IF sec = "nofield" THEN [data |-> "", err |-> Nil]
        ELSE [data |-> "kubeconfig-of-" \o Label(nss[ns], "owner"), err |-> Nil]

(***************************************************************************)
(* AuthHandler (pkg/auth/auth.go)                                          *)
(***************************************************************************)
IsAuthenticated(v) == v.authenticated = "true"

GetUsername(v) ==
    IF v.authenticated # "true" THEN [username |-> "", ok |-> FALSE]
    ELSE IF v.username = Nil \/ v.username = "" THEN [username |-> "", ok |-> FALSE]
    ELSE [username |-> v.username, ok |-> TRUE]

\* (variant) only the user's first team looked at
isUserAllowedFirstOnly(allow, teams) ==
    IF Len(allow) = 0 THEN TRUE
    ELSE IF Len(teams) = 0 THEN FALSE
    ELSE \E j \in 1..Len(allow) : teams[1] = allow[j]

isUserAllowed(allow, teams) ==
    IF Len(allow) = 0 THEN TRUE
    ELSE IF Len(teams) = 0 THEN FALSE
    ELSE \E i \in 1..Len(teams) : \E j \in 1..Len(allow) : teams[i] = allow[j]

\* HandleLogin: the cookie's values are kept (CookieStore.New decodes the
\* request's cookie) and the fresh state is stored among them.
LoginValues(v, state) == [v EXCEPT !.state = state]

\* (variant) the state of the query not compared with the stored one
CallbackResultAnyState(v, allow, code, incoming, idp, login, teams) ==
    IF code = "" \/ incoming = "" THEN [status |-> "400", values |-> v]
    ELSE IF v.state = Nil THEN [status |-> "400", values |-> v]
    ELSE IF idp # "ok" THEN [status |-> "500", values |-> v]
    ELSE IF ~isUserAllowed(allow, teams) THEN [status |-> "403", values |-> v]
    ELSE [status |-> "307",
          values |-> [v EXCEPT !.authenticated = "true",
                               !.access_token = "token",
                               !.username = login]]

\* (variant) the session authenticated without the team check
CallbackResultUnchecked(v, allow, code, incoming, idp, login, teams) ==
    IF code = "" \/ incoming = "" THEN [status |-> "400", values |-> v]
    ELSE IF v.state = Nil THEN [status |-> "400", values |-> v]
    ELSE IF v.state # incoming THEN [status |-> "400", values |-> v]
    ELSE IF idp # "ok" THEN [status |-> "500", values |-> v]
    ELSE [status |-> "307",
          values |-> [v EXCEPT !.authenticated = "true",
                               !.access_token = "token",
                               !.username = login]]

\* HandleCallback. idp is what the identity provider answers: "exchange",
\* "user" and "teams" are the failures of the three remote calls, "ok" is
\* success with the given login and teams.
CallbackResult(v, allow, code, incoming, idp, login, teams) ==
    IF code = "" \/ incoming = "" THEN [status |-> "400", values |-> v]
    ELSE IF v.state = Nil THEN [status |-> "400", values |-> v]
    ELSE IF v.state # incoming THEN [status |-> "400", values |-> v]
    ELSE IF idp # "ok" THEN [status |-> "500", values |-> v]
    ELSE IF ~isUserAllowed(allow, teams) THEN [status |-> "403", values |-> v]
    ELSE [status |-> "307",
          values |-> [v EXCEPT !.authenticated = "true",
                               !.access_token = "token",
                               !.username = login]]

\* (variant) only the access token deleted
LogoutValuesTokenOnly(v) == [v EXCEPT !.access_token = Nil]

\* HandleLogout: every value deleted, then authenticated = false.
LogoutValues(v) == [EmptyValues EXCEPT !.authenticated = "false"]

\* authMiddleware on an /api route: the request goes on to the handler
\* only with an authenticated session.
authMiddleware(v) == IsAuthenticated(v)

(***************************************************************************)
(* The handlers (cmd/server/main.go)                                       *)
(***************************************************************************)
MaxTeamspaces == 3

NoCall == [op |-> "none", target |-> ""]
Call(op, target) == [op |-> op, target |-> target]

\* What a handler step yields: the response status (Nil while the handler
\* goes on to its second store call), the store call it made, the body.
Result(status, call, body) == [status |-> status, call |-> call, body |-> body]

\* The body of an error response that carries a store error: the handler's
\* text and, after it, the error's own text (err.Error()).
Failure(text, err) == <<[error |-> text, cause |-> err]>>

\* A request on an /api route: authMiddleware, then the handler.
Served(v, result) ==
    IF authMiddleware(v) THEN result ELSE Result("401", NoCall, <<>>)

handleListTeamspaces(nss, v, ok) ==
    LET u == GetUsername(v)
    IN  IF ~u.ok THEN Result("401", NoCall, <<>>)
        ELSE IF ~ok THEN Result("500", Call("list", u.username),
                                Failure("Unable to list teamspaces", "Unavailable"))
        ELSE Result("200", Call("list", u.username),
                    ListTeamspacesByOwner(nss, u.username))

\* (variant) the body and the name looked at before the quota
createCheckNameFirst(nss, v, body, ok) ==
    LET u == GetUsername(v)
    IN  IF ~u.ok THEN Result("401", NoCall, <<>>)
        ELSE IF ~body.valid THEN Result("400", NoCall, <<>>)
        ELSE IF body.name = "" THEN Result("400", NoCall, <<>>)
        ELSE IF ~ok THEN Result("500", Call("list", u.username),
                                Failure("Unable to check existing teamspaces",
                                        "Unavailable"))
        ELSE IF Len(ListTeamspacesByOwner(nss, u.username)) >= MaxTeamspaces
             THEN Result("403", Call("list", u.username), <<>>)
        ELSE Result(Nil, Call("list", u.username), <<>>)

\* (variant) the name not looked at
createCheckAnyName(nss, v, body, ok) ==
    LET u == GetUsername(v)
    IN  IF ~u.ok THEN Result("401", NoCall, <<>>)
        ELSE IF ~ok THEN Result("500", Call("list", u.username),
                                Failure("Unable to check existing teamspaces",
                                        "Unavailable"))
        ELSE IF Len(ListTeamspacesByOwner(nss, u.username)) >= MaxTeamspaces
             THEN Result("403", Call("list", u.username), <<>>)
        ELSE IF ~body.valid THEN Result("400", Call("list", u.username), <<>>)
        ELSE Result(Nil, Call("list", u.username), <<>>)

\* (variant) the quota counted with the owner's creates still under way
createCheckReserving(nss, v, body, ok) ==
    LET u == GetUsername(v)
        underWay == {q \in BagToSet(req) : q.pc = "create" /\ q.username = u.username}
    IN  IF ~u.ok THEN Result("401", NoCall, <<>>)
        ELSE IF ~ok THEN Result("500", Call("list", u.username),
                                Failure("Unable to check existing teamspaces",
                                        "Unavailable"))
        ELSE IF Len(ListTeamspacesByOwner(nss, u.username))
                  + Cardinality(underWay) >= MaxTeamspaces
             THEN Result("403", Call("list", u.username), <<>>)
        ELSE IF ~body.valid THEN Result("400", Call("list", u.username), <<>>)
        ELSE IF body.name = "" THEN Result("400", Call("list", u.username), <<>>)
        ELSE Result(Nil, Call("list", u.username), <<>>)

\* (variant) the quota compared with > instead of >=
createCheckOffByOne(nss, v, body, ok) ==
    LET u == GetUsername(v)
    IN  IF ~u.ok THEN Result("401", NoCall, <<>>)
        ELSE IF ~ok THEN Result("500", Call("list", u.username),
                                Failure("Unable to check existing teamspaces",
                                        "Unavailable"))
        ELSE IF Len(ListTeamspacesByOwner(nss, u.username)) > MaxTeamspaces
             THEN Result("403", Call("list", u.username), <<>>)
        ELSE IF ~body.valid THEN Result("400", Call("list", u.username), <<>>)
        ELSE IF body.name = "" THEN Result("400", Call("list", u.username), <<>>)
        ELSE Result(Nil, Call("list", u.username), <<>>)

\* handleCreateTeamspace up to the call of CreateTeamspace: the session's
\* username, the quota on the owner's listing, the body, the name.
createCheck(nss, v, body, ok) ==
    LET u == GetUsername(v)
    IN  IF ~u.ok THEN Result("401", NoCall, <<>>)
        ELSE IF ~ok THEN Result("500", Call("list", u.username),
                                Failure("Unable to check existing teamspaces",
                                        "Unavailable"))
        ELSE IF Len(ListTeamspacesByOwner(nss, u.username)) >= MaxTeamspaces
             THEN Result("403", Call("list", u.username), <<>>)
        ELSE IF ~body.valid THEN Result("400", Call("list", u.username), <<>>)
        ELSE IF body.name = "" THEN Result("400", Call("list", u.username), <<>>)
        ELSE Result(Nil, Call("list", u.username), <<>>)

\* (variant) the owner taken from the posted name
createCallNameAsOwner(nss, rq, ok, clock) ==
    LET t == CreateTeamspace(nss, rq.name, rq.name, rq.release,
                             rq.featureSet, ok, clock)
        c == Call("create", NamespaceOf(rq.name))
    IN  IF t.err # Nil
        THEN [nss |-> t.nss,
              res |-> Result("500", c, Failure("Failed to create teamspace", t.err))]
        ELSE [nss |-> t.nss, res |-> Result("201", c, <<t.teamspace>>)]

\* handleCreateTeamspace from the call of CreateTeamspace on.
createCall(nss, rq, ok, clock) ==
    LET t == CreateTeamspace(nss, rq.name, rq.username, rq.release,
                             rq.featureSet, ok, clock)
        c == Call("create", NamespaceOf(rq.name))
    IN  IF t.err # Nil
        THEN [nss |-> t.nss,
              res |-> Result("500", c, Failure("Failed to create teamspace", t.err))]
        ELSE [nss |-> t.nss, res |-> Result("201", c, <<t.teamspace>>)]

\* handleDeleteTeamspace up to the call of DeleteTeamspace.
deleteCheck(nss, v, id, ok) ==
    LET u == GetUsername(v)
        o == IsTeamspaceOwner(nss, id, u.username, ok)
        c == Call("get", NamespaceOf(id))
    IN  IF id = "" THEN Result("400", NoCall, <<>>)
        ELSE IF ~u.ok THEN Result("401", NoCall, <<>>)
        ELSE IF o.err # Nil
             THEN Result("500", c, Failure("Failed to check teamspace ownership", o.err))
        ELSE IF ~o.isOwner THEN Result("403", c, <<>>)
        ELSE Result(Nil, c, <<>>)

\* handleDeleteTeamspace from the call of DeleteTeamspace on.
deleteCall(nss, rq, ok) ==
    LET d == DeleteTeamspace(nss, rq.name, ok)
        c == Call("delete", NamespaceOf(rq.name))
    IN  IF d.err # Nil
        THEN [nss |-> d.nss,
              res |-> Result("500", c, Failure("Failed to delete teamspace", d.err))]
        ELSE [nss |-> d.nss, res |-> Result("204", c, <<>>)]

\* handleGetKubeconfig up to the call of GetKubeconfig.
kubeconfigCheck(nss, v, id, ok) ==
    LET u == GetUsername(v)
        o == IsTeamspaceOwner(nss, id, u.username, ok)
        c == Call("get", NamespaceOf(id))
    IN  IF ~u.ok THEN Result("401", NoCall, <<>>)
        ELSE IF o.err # Nil
             THEN Result("500", c, Failure("Failed to check teamspace ownership", o.err))
        ELSE IF ~o.isOwner THEN Result("403", c, <<>>)
        ELSE Result(Nil, c, <<>>)

\* handleGetKubeconfig from the call of GetKubeconfig on.
kubeconfigCall(nss, rq, sec, ok) ==
    LET k == GetKubeconfig(nss, rq.name, sec, ok)
        c == Call("getSecret", NamespaceOf(rq.name))
    IN  IF k.err # Nil
        THEN [data |-> Nil, res |-> Result("500", c, Failure("", k.err))]
        ELSE [data |-> k.data, res |-> Result("200", c, <<>>)]

(***************************************************************************)
(* The web client (frontend/src/App.tsx)                                   *)
(***************************************************************************)
\* An entry of the client's list: a Teamspace of a response and the
\* isDeleting flag. A flag left undefined reads as false wherever the
\* client looks at it, and is false here.
Entry(ts, isDeleting) ==
    [name |-> ts.name, namespace |-> ts.namespace, owner |-> ts.owner,
     createdAt |-> ts.createdAt,
     deletionTimestamp |-> ts.deletionTimestamp, isDeleting |-> isDeleting]

\* (variant) the deletion timestamp not looked at
hasDeleteInProgressFlagOnly(teamspaces) ==
    \E i \in 1..Len(teamspaces) : teamspaces[i].isDeleting

hasDeleteInProgress(teamspaces) ==
    \E i \in 1..Len(teamspaces) :
        teamspaces[i].isDeleting \/ teamspaces[i].deletionTimestamp # Nil

\* setTeamspaces and the render that follows it: the polling effect sets
\* the interval when hasDeleteInProgress holds and clears it otherwise.
setTeamspaces(a, teamspaces) ==
    [a EXCEPT !.teamspaces = teamspaces,
              !.interval = hasDeleteInProgress(teamspaces)]

\* prev.find(p => p.name === name): the first entry of that name, or none
\* (the set is empty).
find(prev, name) ==
    LET at == {i \in 1..Len(prev) : prev[i].name = name}
    IN  {prev[i] : i \in {k \in at : \A j \in at : k <= j}}

\* The list fetchTeamspaces sets from a response: each entry is deleting
\* when it carries a deletionTimestamp or the entry of its name was.
fetched(prev, data) ==
    [i \in 1..Len(data) |->
        Entry(data[i],
              \/ data[i].deletionTimestamp # Nil
              \/ \E prevTeamspace \in find(prev, data[i].name) :
                    prevTeamspace.isDeleting)]

\* The list handleCreate sets: the response as it came.
created(data) == [i \in 1..Len(data) |-> Entry(data[i], FALSE)]

\* (variant) the flag set whatever the handler passes
markedAlways(prev, name, isDeleting) ==
    [i \in 1..Len(prev) |->
        IF prev[i].name = name THEN [prev[i] EXCEPT !.isDeleting = TRUE]
        ELSE prev[i]]

\* prev.map(ts => ts.name === name ? {...ts, isDeleting} : ts)
marked(prev, name, isDeleting) ==
    [i \in 1..Len(prev) |->
        IF prev[i].name = name THEN [prev[i] EXCEPT !.isDeleting = isDeleting]
        ELSE prev[i]]

\* A request the client awaits: the handler it belongs to, the name, where
\* it is (sent, serving between the server's two store calls, answered;
\* for a create, listing and listed for the GET that follows), and the
\* response.
Pending(op, name, pc) ==
    [op |-> op, name |-> name, pc |-> pc, status |-> Nil, data |-> <<>>]

Answered(c, e) ==
    [c EXCEPT !.pc = IF e.status = Nil THEN "serving"
                     ELSE IF c.pc = "listing" THEN "listed" ELSE "answered",
              !.status = e.status,
              !.data = IF e.status = "200" THEN e.body ELSE <<>>]

\* The component before it is mounted, and once mounted with its session
\* checked: the list empty, no interval, the first fetchTeamspaces sent.
Unmounted == [teamspaces |-> <<>>, interval |-> FALSE, calls |-> {}]
Mounted == [Unmounted EXCEPT !.calls = {Pending("fetch", "", "sent")}]

(***************************************************************************)
(* State machine                                                           *)
(***************************************************************************)
\* A request between its check and its write: where it is, the cookie it
\* came with, and the handler's locals.
InFlight(pc, v, name, release, featureSet) ==
    [pc |-> pc, cookie |-> v, username |-> GetUsername(v).username,
     name |-> name, release |-> release, featureSet |-> featureSet]

\* The server has room for one more request.
Room == BagCardinality(req) < NumReq

Enter(rq) == req (+) SetToBag({rq})
Leave(rq) == req (-) SetToBag({rq})

\* The record of a step: its kind, the browser and the cookie of the
\* request, the name it is about, and the handler's result.
Event(kind, browser, v, name, res) ==
    [kind |-> kind, browser |-> browser, cookie |-> v, name |-> name,
     status |-> res.status, call |-> res.call, body |-> res.body,
     teams |-> <<>>, data |-> Nil]

\* The bodies a client posts: the fields of the create form, or bytes
\* that do not decode.
Bodies ==
    [valid : {TRUE}, name : env.names \cup {""}, release : Releases,
     featureSet : FeatureSets]
    \cup {[valid |-> FALSE, name |-> "", release |-> "", featureSet |-> ""]}

\* What a store call can come to: an answer, or (ok = FALSE) a failure in
\* transit.
StoreAnswers == IF env.faults THEN BOOLEAN ELSE {TRUE}

InitIn(worlds) ==
    /\ env \in worlds
    /\ allowed = env.allowed
    /\ namespaces = SystemNamespaces
    /\ creator = [k \in {} |-> Nil]
    /\ sessions = env.cookies
    /\ req = EmptyBag
    /\ last = Event("init", Nil, EmptyValues, "", Result(Nil, NoCall, <<>>))
    /\ app = IF "app" \in env.ops THEN Mounted ELSE Unmounted

Init == InitIn(Worlds)

\* GET /auth/login
HandleLogin(s, state) ==
    /\ sessions' = [sessions EXCEPT ![s] = LoginValues(@, state)]
    /\ last' = Event("login", s, sessions[s], "", Result("307", NoCall, <<>>))
    /\ UNCHANGED <<namespaces, allowed, req, creator, env>>

\* GET /auth/callback?code=..&state=..
HandleCallback(s, code, incoming, idp, login, teams) ==
    LET c == CallbackResult(sessions[s], allowed, code, incoming, idp, login, teams)
        e == Event("callback", s, sessions[s], "", Result(c.status, NoCall, <<>>))
    IN  /\ sessions' = [sessions EXCEPT ![s] = c.values]
        /\ last' = IF c.status \in {"403", "307"} THEN [e EXCEPT !.teams = teams]
                   ELSE e
        /\ UNCHANGED <<namespaces, allowed, req, creator, env>>

\* /auth/logout
HandleLogout(s) ==
    /\ sessions' = [sessions EXCEPT ![s] = LogoutValues(@)]
    /\ last' = Event("logout", s, sessions[s], "", Result("200", NoCall, <<>>))
    /\ UNCHANGED <<namespaces, allowed, req, creator, env>>

\* The browser drops the cookie when its MaxAge has passed.
SessionExpire(s) ==
    /\ sessions[s] # EmptyValues
    /\ sessions' = [sessions EXCEPT ![s] = EmptyValues]
    /\ last' = Event("expire", s, sessions[s], "", Result(Nil, NoCall, <<>>))
    /\ UNCHANGED <<namespaces, allowed, req, creator, env>>

\* GET /api/teamspaces
ListRequest(s) ==
    \E ok \in StoreAnswers :
        LET v == sessions[s]
            res == Served(v, handleListTeamspaces(namespaces, v, ok))
        IN  /\ last' = Event("list", s, v, "", res)
            /\ UNCHANGED <<namespaces, sessions, allowed, req, creator, env>>

\* A create request of this owner is between its quota check and its
\* namespace create.
CreateInFlight(owner) ==
    \E q \in BagToSet(req) : q.pc = "create" /\ q.username = owner

\* POST /api/teamspaces, to the quota check and the decoded body.
CreateStart(s, body) ==
    /\ Room
    /\ env.serial => ~CreateInFlight(GetUsername(sessions[s]).username)
    /\ \E ok \in StoreAnswers :
        LET v == sessions[s]
            res == Served(v, createCheck(namespaces, v, body, ok))
        IN  /\ last' = Event("create", s, v, body.name, res)
            /\ req' = IF res.status = Nil
                      THEN Enter(InFlight("create", v, body.name,
                                          body.release, body.featureSet))
                      ELSE req
    /\ UNCHANGED <<namespaces, sessions, allowed, creator, env>>

\* POST /api/teamspaces, the namespace create and the response.
CreateFinish(rq) ==
    /\ rq.pc = "create"
    /\ \E ok \in StoreAnswers, clock \in env.clocks :
        LET c == createCall(namespaces, rq, ok, clock)
        IN  /\ namespaces' = c.nss
            /\ last' = Event("create", Nil, rq.cookie, rq.name, c.res)
            /\ creator' = IF c.res.status = "201"
                          THEN [k \in DOMAIN creator \cup {NamespaceOf(rq.name)} |->
                                  IF k = NamespaceOf(rq.name)
                                  THEN rq.username ELSE creator[k]]
                          ELSE creator
    /\ req' = Leave(rq)
    /\ UNCHANGED <<sessions, allowed, env>>

\* DELETE /api/teamspaces/{id}, to the ownership check.
DeleteStart(s, id) ==
    /\ Room
    /\ \E ok \in StoreAnswers :
        LET v == sessions[s]
            res == Served(v, deleteCheck(namespaces, v, id, ok))
        IN  /\ last' = Event("delete", s, v, id, res)
            /\ req' = IF res.status = Nil
                      THEN Enter(InFlight("delete", v, id, "", ""))
                      ELSE req
    /\ UNCHANGED <<namespaces, sessions, allowed, creator, env>>

\* DELETE /api/teamspaces/{id}, the namespace delete and the response.
DeleteFinish(rq) ==
    /\ rq.pc = "delete"
    /\ \E ok \in StoreAnswers :
        LET d == deleteCall(namespaces, rq, ok)
        IN  /\ namespaces' = d.nss
            /\ last' = Event("delete", Nil, rq.cookie, rq.name, d.res)
    /\ req' = Leave(rq)
    /\ UNCHANGED <<sessions, allowed, creator, env>>

\* /api/teamspaces/{id}/kubeconfig, to the ownership check.
KubeconfigStart(s, id) ==
    /\ Room
    /\ \E ok \in StoreAnswers :
        LET v == sessions[s]
            res == Served(v, kubeconfigCheck(namespaces, v, id, ok))
        IN  /\ last' = Event("kubeconfig", s, v, id, res)
            /\ req' = IF res.status = Nil
                      THEN Enter(InFlight("kubeconfig", v, id, "", ""))
                      ELSE req
    /\ UNCHANGED <<namespaces, sessions, allowed, creator, env>>

\* /api/teamspaces/{id}/kubeconfig, the secret read and the response.
KubeconfigFinish(rq) ==
    /\ rq.pc = "kubeconfig"
    /\ \E ok \in StoreAnswers, sec \in {"absent", "nofield", "data"} :
        LET k == kubeconfigCall(namespaces, rq, sec, ok)
        IN  last' = [Event("kubeconfig", Nil, rq.cookie, rq.name, k.res)
                       EXCEPT !.data = k.data]
    /\ req' = Leave(rq)
    /\ UNCHANGED <<namespaces, sessions, allowed, creator, env>>

\* The platform finishes the teardown of a namespace marked for deletion.
Finalize(ns) ==
    /\ Terminating(namespaces, ns)
    /\ namespaces' = [k \in DOMAIN namespaces \ {ns} |-> namespaces[k]]
    /\ creator' = [k \in DOMAIN creator \ {ns} |-> creator[k]]
    /\ last' = Event("finalize", Nil, EmptyValues, ns, Result(Nil, NoCall, <<>>))
    /\ UNCHANGED <<sessions, allowed, req, env>>

\* The browser the web client runs in.
AppBrowser == "s1"

\* The client can await one more request.
AppRoom(c) == c \notin app.calls /\ Cardinality(app.calls) < NumReq

\* A client step is recorded like a server step.
AppEvent(kind, name) ==
    Event(kind, AppBrowser, sessions[AppBrowser], name, Result(Nil, NoCall, <<>>))

\* The interval of the polling effect fires: fetchTeamspaces is called.
PollTick ==
    /\ app.interval
    /\ AppRoom(Pending("fetch", "", "sent"))
    /\ app' = [app EXCEPT !.calls = @ \cup {Pending("fetch", "", "sent")}]
    /\ last' = AppEvent("poll", "")
    /\ UNCHANGED <<namespaces, sessions, allowed, req, creator, env>>

\* The server takes a step for a request of the client, which holds the
\* response when there is one.
AppServed(c) ==
    /\ \/ c.pc = "sent" /\ c.op = "fetch" /\ ListRequest(AppBrowser)
       \/ c.pc = "listing" /\ ListRequest(AppBrowser)
       \/ c.pc = "sent" /\ c.op = "delete" /\ DeleteStart(AppBrowser, c.name)
       \/ /\ c.pc = "sent" /\ c.op = "create"
          /\ CreateStart(AppBrowser, [valid |-> TRUE, name |-> c.name,
                                      release |-> "v1", featureSet |-> "Default"])
       \/ /\ c.pc = "serving" /\ c.op = "delete"
          /\ \E rq \in BagToSet(req) :
                rq.pc = "delete" /\ rq.name = c.name /\ DeleteFinish(rq)
       \/ /\ c.pc = "serving" /\ c.op = "create"
          /\ \E rq \in BagToSet(req) :
                rq.pc = "create" /\ rq.name = c.name /\ CreateFinish(rq)
    /\ app' = [app EXCEPT !.calls = (@ \ {c}) \cup {Answered(c, last')}]

\* fetchTeamspaces, from the response on: the list is set from a 2xx
\* response and left as it is otherwise.
fetchTeamspaces(c) ==
    /\ c.op = "fetch" /\ c.pc = "answered"
    /\ app' = LET a == [app EXCEPT !.calls = @ \ {c}]
              IN  IF c.status = "200"
                  THEN setTeamspaces(a, fetched(app.teamspaces, c.data))
                  ELSE a
    /\ last' = AppEvent("fetched", c.name)
    /\ UNCHANGED <<namespaces, sessions, allowed, req, creator, env>>

\* handleDeleteTeamspace, to the DELETE request: the button of an entry
\* that is not shown as deleting, the entry marked, the request sent.
handleDeleteTeamspace(name) ==
    /\ \E i \in 1..Len(app.teamspaces) :
          /\ app.teamspaces[i].name = name
          /\ ~app.teamspaces[i].isDeleting
          /\ app.teamspaces[i].deletionTimestamp = Nil
    /\ AppRoom(Pending("delete", name, "sent"))
    /\ app' = [setTeamspaces(app, marked(app.teamspaces, name, TRUE))
                 EXCEPT !.calls = @ \cup {Pending("delete", name, "sent")}]
    /\ last' = AppEvent("mark", name)
    /\ UNCHANGED <<namespaces, sessions, allowed, req, creator, env>>

\* handleDeleteTeamspace, from the response on: fetchTeamspaces after a
\* 2xx response, the mark taken back otherwise.
deleteSettled(c) ==
    /\ c.op = "delete" /\ c.pc = "answered"
    /\ app' = IF c.status = "204"
              THEN [app EXCEPT !.calls = (@ \ {c})
                                  \cup {Pending("fetch", c.name, "sent")}]
              ELSE [setTeamspaces(app, marked(app.teamspaces, c.name, FALSE))
                      EXCEPT !.calls = @ \ {c}]
    /\ last' = AppEvent(IF c.status = "204" THEN "settled" ELSE "unmarked", c.name)
    /\ UNCHANGED <<namespaces, sessions, allowed, req, creator, env>>

\* handleCreate, to the POST request; an empty name is not sent.
handleCreate(name) ==
    /\ name # ""
    /\ AppRoom(Pending("create", name, "sent"))
    /\ app' = [app EXCEPT !.calls = @ \cup {Pending("create", name, "sent")}]
    /\ last' = AppEvent("submit", name)
    /\ UNCHANGED <<namespaces, sessions, allowed, req, creator, env>>

\* handleCreate, from the POST response on: the GET of the list after a
\* 2xx response, an alert otherwise.
createSettled(c) ==
    /\ c.op = "create" /\ c.pc = "answered"
    /\ app' = IF c.status = "201"
              THEN [app EXCEPT !.calls = (@ \ {c})
                                  \cup {Pending("create", c.name, "listing")}]
              ELSE [app EXCEPT !.calls = @ \ {c}]
    /\ last' = AppEvent("settled", c.name)
    /\ UNCHANGED <<namespaces, sessions, allowed, req, creator, env>>

\* handleCreate, from the GET response on: the list set to the response.
createListed(c) ==
    /\ c.op = "create" /\ c.pc = "listed"
    /\ app' = LET a == [app EXCEPT !.calls = @ \ {c}]
              IN  IF c.status = "200" THEN setTeamspaces(a, created(c.data))
                  ELSE a
    /\ last' = AppEvent("created", c.name)
    /\ UNCHANGED <<namespaces, sessions, allowed, req, creator, env>>

\* The query strings of a callback: code and state, either of them
\* possibly missing, the state possibly not the one any login issued.
CallbackQueries ==
    [code : {"", "code"}, state : {"", "st1", "forged"}]

\* What the identity provider answers to a callback's three remote calls.
IdpAnswers ==
    {[kind |-> k, login |-> "", teams |-> <<>>] : k \in {"exchange", "user", "teams"}}
    \cup [kind : {"ok"}, login : env.logins, teams : TeamLists]

\* The identity provider is reached only by a callback that carries a code
\* and the session's state; for any other callback its answer is never
\* read, and one answer stands for all.
IdpAsked(v, q) == q.code # "" /\ q.state # "" /\ v.state = q.state

Sends(op) == op \in env.ops

Next ==
    \/ \E s \in env.browsers, state \in env.tokens :
          Sends("login") /\ HandleLogin(s, state) /\ UNCHANGED app
    \/ \E s \in env.browsers, q \in CallbackQueries, idp \in IdpAnswers :
            /\ Sends("callback")
            /\ IdpAsked(sessions[s], q) \/ idp.kind = "exchange"
            /\ HandleCallback(s, q.code, q.state, idp.kind, idp.login, idp.teams)
            /\ UNCHANGED app
    \/ \E s \in env.browsers : Sends("logout") /\ HandleLogout(s) /\ UNCHANGED app
    \/ \E s \in env.browsers : Sends("expire") /\ SessionExpire(s) /\ UNCHANGED app
    \/ \E s \in env.browsers : Sends("list") /\ ListRequest(s) /\ UNCHANGED app
    \/ \E s \in env.browsers, body \in Bodies :
          Sends("create") /\ CreateStart(s, body) /\ UNCHANGED app
    \/ \E rq \in BagToSet(req) : CreateFinish(rq) /\ UNCHANGED app
    \/ \E s \in env.browsers, id \in env.names :
          Sends("delete") /\ DeleteStart(s, id) /\ UNCHANGED app
    \/ \E rq \in BagToSet(req) : DeleteFinish(rq) /\ UNCHANGED app
    \/ \E s \in env.browsers, id \in env.names :
          Sends("kubeconfig") /\ KubeconfigStart(s, id) /\ UNCHANGED app
    \/ \E rq \in BagToSet(req) : KubeconfigFinish(rq) /\ UNCHANGED app
    \/ \E ns \in DOMAIN namespaces : Finalize(ns) /\ UNCHANGED app

Spec == Init /\ [][Next]_vars

\* The web client of one user, the server behind it and the platform.
InitApp == InitIn({ClientWorld})
NextApp ==
    \/ PollTick
    \/ \E c \in app.calls : AppServed(c)
    \/ \E c \in app.calls : fetchTeamspaces(c)
    \/ \E name \in env.names : handleDeleteTeamspace(name)
    \/ \E c \in app.calls : deleteSettled(c)
    \/ \E name \in env.names : handleCreate(name)
    \/ \E c \in app.calls : createSettled(c)
    \/ \E c \in app.calls : createListed(c)
    \/ \E ns \in DOMAIN namespaces : Finalize(ns) /\ UNCHANGED app
SpecApp == InitApp /\ [][NextApp]_vars

\* The lifecycle requests of one user with the two clocks read.
InitClock == InitIn({ClockWorld})
NextClock ==
    \/ \E s \in env.browsers : ListRequest(s) /\ UNCHANGED app
    \/ \E s \in env.browsers, body \in Bodies : CreateStart(s, body) /\ UNCHANGED app
    \/ \E rq \in BagToSet(req) : CreateFinish(rq) /\ UNCHANGED app
    \/ \E s \in env.browsers, id \in env.names : DeleteStart(s, id) /\ UNCHANGED app
    \/ \E rq \in BagToSet(req) : DeleteFinish(rq) /\ UNCHANGED app
    \/ \E ns \in DOMAIN namespaces : Finalize(ns) /\ UNCHANGED app
SpecClock == InitClock /\ [][NextClock]_vars

\* The browser runs the continuation of every response it has received:
\* here, the catch branch of a delete that failed.
SpecAppFair ==
    /\ SpecApp
    /\ WF_vars(\E c \in app.calls : c.status # "204" /\ deleteSettled(c))

\* The store answers every call.
InitUp == InitIn({[w EXCEPT !.faults = FALSE] : w \in Worlds})
SpecUp == InitUp /\ [][Next]_vars

\* Each owner's create requests come one after the other.
InitSeq == InitIn({[w EXCEPT !.serial = TRUE] : w \in Worlds})
SpecSeq == InitSeq /\ [][Next]_vars

\* The platform finishes every teardown it has begun.
AllNamespaces == {NamespaceOrder[i] : i \in 1..Len(NamespaceOrder)}
\* Here one browser goes through the login flow.
InitFair == InitIn({OwnerWorld, [AuthWorld EXCEPT !.browsers = {"s1"}]})
SpecFair ==
    /\ InitFair /\ [][Next]_vars
    /\ \A ns \in AllNamespaces : WF_vars(Finalize(ns) /\ UNCHANGED app)

\* The login flow under each configured allow-list: none, one team, two.
AllowLists == {<<>>, <<"dev">>, <<"dev", "qa">>}
InitAllow ==
    InitIn({[AuthWorld EXCEPT !.browsers = {"s1"}, !.allowed = a] : a \in AllowLists})
SpecAllow == InitAllow /\ [][Next]_vars

(***************************************************************************)
(* Properties                                                              *)
(***************************************************************************)
\* The session of a request resolves to a non-empty username.
Authenticated(v) ==
    v.authenticated = "true" /\ v.username # Nil /\ v.username # ""

\* The namespaces in the store that carry the owner's label.
Owned(nss, owner) ==
    {ns \in DOMAIN nss : /\ Label(nss[ns], "teamspace") = "true"
                         /\ Label(nss[ns], "owner") = owner}

\* The step just taken is the first step of a request of this kind (its
\* checks), or its second step (its write and its response).
Started(e, kind) == e.kind = kind /\ e.browser # Nil
Finished(e, kind) == e.kind = kind /\ e.browser = Nil

\* C1: when a create request has just succeeded, the owner's listing holds
\* an entry with the created name and that owner and no deletionTimestamp.
C1_CreateThenListed ==
    (Finished(last, "create") /\ last.status = "201") =>
        LET owner == last.cookie.username
            l == ListTeamspacesByOwner(namespaces, owner)
        IN  \E i \in 1..Len(l) : /\ l[i].name = last.name
                                 /\ l[i].owner = owner
                                 /\ l[i].deletionTimestamp = Nil

C1_Witness ==
    /\ Finished(last, "create") /\ last.status = "201"
    /\ Authenticated(last.cookie) /\ last.name # ""
    /\ Cardinality(Owned(namespaces, last.cookie.username)) > 1

\* C2: a create request of an owner who holds exactly 3 namespaces, active
\* or terminating, is answered 403 (quota), makes no create call now or
\* later, and leaves the store as it was.
C2_QuotaRejects ==
    [][(/\ Started(last', "create")
        /\ Authenticated(last'.cookie)
        /\ Cardinality(Owned(namespaces, last'.cookie.username)) = 3)
       => (/\ last'.status = "403"
           /\ last'.call.op # "create"
           /\ req' = req
           /\ namespaces' = namespaces)]_vars

C2_Witness ==
    /\ Started(last, "create") /\ last.status = "403"
    /\ Cardinality(Owned(namespaces, last.cookie.username)) = 3
    /\ \E a, b \in Owned(namespaces, last.cookie.username) :
          Terminating(namespaces, a) /\ ~Terminating(namespaces, b)

\* C3: with the create requests of each owner one after the other, no owner
\* ever holds more than 3 namespaces, active or terminating.
C3_QuotaHoldsSerially ==
    \A o \in env.logins : Cardinality(Owned(namespaces, o)) <= 3

C3_Witness ==
    /\ env.serial
    /\ \E o \in env.logins : Cardinality(Owned(namespaces, o)) = 3
    /\ Started(last, "create") /\ last.status = "403"

\* C4: the quota check reserves nothing. A create request of an owner who
\* holds 2 namespaces passes the check while another create of that owner,
\* for a different name, is between its check and its write; and the write
\* of a create whose name is free succeeds. So both succeed, and the owner
\* holds 4 namespaces.
C4_OverlappingCreatesPass ==
    [][/\ (/\ Started(last', "create")
           /\ Authenticated(last'.cookie)
           /\ last'.name # ""
           /\ Cardinality(Owned(namespaces, last'.cookie.username)) = 2
           /\ \E q \in BagToSet(req) : /\ q.pc = "create"
                                       /\ q.username = last'.cookie.username
                                       /\ q.name # last'.name)
          => (/\ last'.status = Nil
              /\ BagCardinality(req') = BagCardinality(req) + 1
              /\ namespaces' = namespaces)
       /\ (/\ Finished(last', "create")
           /\ ~Exists(namespaces, NamespaceOf(last'.name)))
          => (/\ last'.status = "201"
              /\ Owned(namespaces', last'.cookie.username)
                   = Owned(namespaces, last'.cookie.username)
                       \cup {NamespaceOf(last'.name)})]_vars

C4_Witness ==
    /\ Finished(last, "create") /\ last.status = "201"
    /\ Cardinality(Owned(namespaces, last.cookie.username)) = 4

\* C5: a namespace gets its deletion marker only in the write of a delete
\* request that came from the identity in the namespace's owner label.
C5_DeletionOnlyByOwner ==
    [][\A ns \in DOMAIN namespaces :
         (/\ ~Terminating(namespaces, ns)
          /\ Terminating(namespaces', ns))
         => (/\ Finished(last', "delete")
             /\ NamespaceOf(last'.name) = ns
             /\ last'.cookie.username = Label(namespaces[ns], "owner"))]_vars

\* C6: a delete request for an existing namespace from an authenticated
\* identity other than the one in its owner label is answered 403, makes
\* no delete call now or later, and leaves the store as it was.
C6_NonOwnerDeleteForbidden ==
    [][(/\ Started(last', "delete")
        /\ Authenticated(last'.cookie)
        /\ Exists(namespaces, NamespaceOf(last'.name))
        /\ Label(namespaces[NamespaceOf(last'.name)], "owner")
             # last'.cookie.username)
       => (/\ last'.status = "403"
           /\ last'.call.op # "delete"
           /\ req' = req
           /\ namespaces' = namespaces)]_vars

C6_Witness ==
    /\ Started(last, "delete") /\ last.status = "403"
    /\ Authenticated(last.cookie)
    /\ Exists(namespaces, NamespaceOf(last.name))
    /\ Label(namespaces[NamespaceOf(last.name)], "owner") # last.cookie.username
    /\ ~Terminating(namespaces, NamespaceOf(last.name))

\* Some owner's listing holds an entry for the name with no
\* deletionTimestamp.
ActiveListed(nss, n) ==
    \E o \in env.logins :
        LET l == ListTeamspacesByOwner(nss, o)
        IN  \E i \in 1..Len(l) : l[i].name = n /\ l[i].deletionTimestamp = Nil

\* Some owner's listing holds an entry for the name.
Listed(nss, n) ==
    \E o \in env.logins :
        LET l == ListTeamspacesByOwner(nss, o)
        IN  \E i \in 1..Len(l) : l[i].name = n

\* The step just taken is the successful write of a request for the name.
Succeeded(e, kind, status, n) ==
    Finished(e, kind) /\ e.status = status /\ e.name = n

\* C7: right after a successful delete no listing holds an active entry for
\* the name, and a name with no active entry gets one only by a create of
\* that name that succeeds.
C7_NoResurrection ==
    [][\A n \in env.names :
         /\ Succeeded(last', "delete", "204", n) => ~ActiveListed(namespaces', n)
         /\ (/\ namespaces' # namespaces
             /\ ~ActiveListed(namespaces, n)
             /\ ActiveListed(namespaces', n))
            => Succeeded(last', "create", "201", n)]_vars

C7_Witness ==
    /\ Finished(last, "delete") /\ last.status = "204"
    /\ Terminating(namespaces, NamespaceOf(last.name))
    /\ Listed(namespaces, last.name)
    /\ ~ActiveListed(namespaces, last.name)

\* C8: with every marked namespace finalized in the end, a successful
\* delete leads to listings without the name, and a name that is not listed
\* gets listed only by a create of that name that succeeds.
C8_DeletedDisappears ==
    /\ \A n \in AllNames :
         (Succeeded(last, "delete", "204", n)) ~> ~Listed(namespaces, n)
    /\ [][\A n \in env.names :
            (~Listed(namespaces, n) /\ Listed(namespaces', n))
            => Succeeded(last', "create", "201", n)]_vars

C8_Witness ==
    /\ last.kind = "finalize"
    /\ \E n \in env.names : last.name = NamespaceOf(n) /\ ~Listed(namespaces, n)
    /\ \E n \in env.names : Listed(namespaces, n)

\* C9: for every namespace in the store, marked for deletion or not,
\* IsTeamspaceOwner answers true for the identity its create was given,
\* false for every other identity, and never an error.
C9_IsOwnerExact ==
    \A n \in env.names : \A u \in env.logins \cup {"mallory"} :
      \A ok \in StoreAnswers :
        Exists(namespaces, NamespaceOf(n)) =>
            IsTeamspaceOwner(namespaces, n, u, ok)
                = [isOwner |-> (u = creator[NamespaceOf(n)]), err |-> Nil]

C9_Witness ==
    /\ Terminating(namespaces, "teamspace-a")
    /\ creator["teamspace-a"] = "bob"
    /\ IsTeamspaceOwner(namespaces, "a", "bob", TRUE).isOwner
    /\ ~IsTeamspaceOwner(namespaces, "a", "alice", TRUE).isOwner

\* C10: every step that makes a store call belongs to a request whose
\* session is authenticated with a non-empty username, and a session turns
\* authenticated only in a callback that ends in the redirect, for a user
\* with no allow-list configured or with a team on the allow-list.
C10_IdentityFirst ==
    [][/\ last'.call.op # "none" => Authenticated(last'.cookie)
       /\ \A q \in BagToSet(req') : Authenticated(q.cookie)
       /\ \A s \in AllSessions :
            (sessions[s].authenticated # "true"
             /\ sessions'[s].authenticated = "true")
            => (/\ last'.kind = "callback"
                /\ last'.browser = s
                /\ last'.status = "307"
                /\ \/ Len(allowed) = 0
                   \/ \E i \in 1..Len(last'.teams), j \in 1..Len(allowed) :
                         last'.teams[i] = allowed[j])]_vars

C10_Witness ==
    /\ Len(allowed) > 0
    /\ Finished(last, "create") /\ last.status = "201"
    /\ \E s \in AllSessions : sessions[s].authenticated = "true"
    /\ \E s \in AllSessions : sessions[s].authenticated = "false"

\* C11: the namespace made by a create request carries, as its owner label
\* and in the Teamspace sent back, the username of the request's session,
\* whatever the posted body holds.
C11_OwnerFromSession ==
    [][(Finished(last', "create") /\ last'.status = "201")
       => LET ns == NamespaceOf(last'.name)
          IN  /\ Exists(namespaces', ns)
              /\ ~Exists(namespaces, ns)
              /\ Label(namespaces'[ns], "owner") = last'.cookie.username
              /\ last'.body[1].owner = last'.cookie.username
              /\ \A b \in Bodies :
                   (b.valid /\ b.name # ""
                      /\ ~Exists(namespaces, NamespaceOf(b.name)))
                   => createCall(namespaces,
                                 InFlight("create", last'.cookie, b.name,
                                          b.release, b.featureSet),
                                 TRUE, Epoch).res.body[1].owner
                        = last'.cookie.username]_vars

C11_Witness ==
    /\ Finished(last, "create") /\ last.status = "201"
    /\ last.cookie.username = "bob"
    /\ Label(namespaces[NamespaceOf(last.name)], "owner") = "bob"
    /\ \E ns \in DOMAIN namespaces : Label(namespaces[ns], "owner") = "alice"

\* The elements of a list.
Range(seq) == {seq[i] : i \in 1..Len(seq)}

\* C12: isUserAllowed is true for every teams list under an empty
\* allow-list; under a non-empty one it is true exactly when some team of
\* the user is on the list (so never for a user with no team), and a
\* callback that reaches the team check ends in the redirect exactly then.
C12_AllowedExactly ==
    /\ [](\A allow \in AllowLists : \A teams \in TeamLists :
            isUserAllowed(allow, teams)
              = (allow = <<>> \/ Range(teams) \cap Range(allow) # {}))
    /\ [][(last'.kind = "callback" /\ last'.status \in {"403", "307"})
          => ((last'.status = "307")
              = (allowed = <<>> \/ Range(last'.teams) \cap Range(allowed) # {}))]_vars

C12_Witness ==
    /\ last.kind = "callback" /\ last.status = "307"
    /\ allowed = <<"dev", "qa">>
    /\ last.teams = <<"ops", "dev">>

\* C13: a credential-fetch request is answered with the secret's data only
\* when its session's username is the owner label of the namespace the
\* secret is read from; a request of any other authenticated identity is
\* answered 403 and makes no secret read, now or later.
C13_CredentialsOnlyToOwner ==
    [][/\ (/\ Finished(last', "kubeconfig")
           /\ last'.status = "200"
           /\ last'.data \notin {Nil, ""})
          => (/\ Exists(namespaces, NamespaceOf(last'.name))
              /\ Label(namespaces[NamespaceOf(last'.name)], "owner")
                   = last'.cookie.username)
       /\ (/\ Started(last', "kubeconfig")
           /\ Authenticated(last'.cookie)
           /\ Exists(namespaces, NamespaceOf(last'.name))
           /\ Label(namespaces[NamespaceOf(last'.name)], "owner")
                # last'.cookie.username)
          => (/\ last'.status = "403"
              /\ last'.call.op # "getSecret"
              /\ req' = req)]_vars

\* C14: a delete request of the owner for a namespace already marked for
\* deletion passes the ownership check, is answered 204 and leaves the
\* store as it was; and a second DeleteTeamspace after a first one that
\* succeeded succeeds too and changes nothing more.
C14_DeleteIdempotent ==
    /\ [][/\ (/\ Started(last', "delete")
              /\ Authenticated(last'.cookie)
              /\ Terminating(namespaces, NamespaceOf(last'.name))
              /\ Label(namespaces[NamespaceOf(last'.name)], "owner")
                   = last'.cookie.username)
             => last'.status = Nil
          /\ (/\ Finished(last', "delete")
              /\ Terminating(namespaces, NamespaceOf(last'.name)))
             => (last'.status = "204" /\ namespaces' = namespaces)]_vars
    /\ [](\A n \in env.names :
            LET once == DeleteTeamspace(namespaces, n, TRUE)
                twice == DeleteTeamspace(once.nss, n, TRUE)
                thrice == DeleteTeamspace(twice.nss, n, TRUE)
            IN  once.err = Nil
                => (/\ twice.err = Nil /\ twice.nss = once.nss
                    /\ thrice.err = Nil /\ thrice.nss = once.nss
                    /\ once.nss[NamespaceOf(n)].labels
                         = namespaces[NamespaceOf(n)].labels))

C14_Witness ==
    /\ Started(last, "delete") /\ last.status = Nil
    /\ Terminating(namespaces, NamespaceOf(last.name))
    /\ Label(namespaces[NamespaceOf(last.name)], "owner") = last.cookie.username
    /\ \E q \in BagToSet(req) : q.pc = "delete" /\ CopiesIn(q, req) = 2

\* C15: for a name whose namespace is not in the store IsTeamspaceOwner
\* returns an error and not ownership, and a delete or credential-fetch
\* request for it is answered 500 after the ownership read, with no delete
\* call and no secret read, now or later.
C15_MissingFailsClosed ==
    /\ [](\A n \in env.names : \A u \in env.logins : \A ok \in StoreAnswers :
            ~Exists(namespaces, NamespaceOf(n))
            => LET o == IsTeamspaceOwner(namespaces, n, u, ok)
               IN  o.err # Nil /\ ~o.isOwner)
    /\ [][(/\ Started(last', "delete") \/ Started(last', "kubeconfig")
           /\ Authenticated(last'.cookie)
           /\ ~Exists(namespaces, NamespaceOf(last'.name)))
          => (/\ last'.status = "500"
              /\ last'.call = Call("get", NamespaceOf(last'.name))
              /\ req' = req
              /\ namespaces' = namespaces)]_vars

C15_Witness ==
    /\ Started(last, "kubeconfig") /\ last.status = "500"
    /\ Authenticated(last.cookie)
    /\ ~Exists(namespaces, NamespaceOf(last.name))
    /\ ~IsTeamspaceOwner(namespaces, last.name, last.cookie.username, TRUE).isOwner
    /\ req # EmptyBag

\* C16: CreateTeamspace for a name whose namespace is in the store, marked
\* for deletion or not and whoever owns it, returns AlreadyExists; the
\* create request is answered 500 and the store is as it was. No step takes
\* the deletion timestamp off a namespace or changes a marked namespace.
C16_CollisionFails ==
    /\ [](\A n \in env.names : \A o \in env.logins :
            Exists(namespaces, NamespaceOf(n))
            => LET c == CreateTeamspace(namespaces, n, o, "v1", "Default", TRUE, Epoch)
               IN  c.err = "AlreadyExists" /\ c.nss = namespaces)
    /\ [][/\ (Finished(last', "create")
              /\ Exists(namespaces, NamespaceOf(last'.name)))
             => (/\ last'.status = "500"
                 /\ namespaces' = namespaces
                 /\ creator' = creator)
          /\ \A ns \in DOMAIN namespaces :
               (Terminating(namespaces, ns) /\ Exists(namespaces', ns))
               => namespaces'[ns] = namespaces[ns]]_vars

C16_Witness ==
    /\ Finished(last, "create") /\ last.status = "500"
    /\ Terminating(namespaces, NamespaceOf(last.name))
    /\ Label(namespaces[NamespaceOf(last.name)], "owner") # last.cookie.username
    /\ CreateTeamspace(namespaces, last.name, last.cookie.username,
                       "v1", "Default", TRUE, Epoch).err = "AlreadyExists"

\* The owners whose listing holds an entry for the name.
Holders(nss, n) ==
    {o \in env.logins :
       \E i \in 1..Len(ListTeamspacesByOwner(nss, o)) :
          ListTeamspacesByOwner(nss, o)[i].name = n}

\* C17 (as stated): while another owner holds a teamspace of the name, the
\* create of an owner below the quota for that name succeeds, and both
\* owners then list the name.
C17_NamesPerOwner ==
    [][(/\ Finished(last', "create")
        /\ Holders(namespaces, last'.name) \ {last'.cookie.username} # {}
        /\ last'.cookie.username \notin Holders(namespaces, last'.name)
        /\ Cardinality(Owned(namespaces, last'.cookie.username)) < 3)
       => (/\ last'.status = "201"
           /\ Cardinality(Holders(namespaces', last'.name)) = 2)]_vars

\* C17 (amended): a name is held by at most one owner at a time; while an
\* owner holds a teamspace of the name, the create of any other owner for
\* that name is answered 500 and leaves the store as it was.
C17_NamesGloballyUnique ==
    /\ [](\A n \in env.names : Cardinality(Holders(namespaces, n)) <= 1)
    /\ [][(/\ Finished(last', "create")
           /\ Holders(namespaces, last'.name) \ {last'.cookie.username} # {})
          => (/\ last'.status = "500"
              /\ namespaces' = namespaces
              /\ Holders(namespaces', last'.name) = Holders(namespaces, last'.name))]_vars

C17_Witness ==
    /\ Finished(last, "create") /\ last.status = "500"
    /\ last.cookie.username = "bob"
    /\ Holders(namespaces, last.name) = {"alice"}
    /\ ~Terminating(namespaces, NamespaceOf(last.name))
    /\ Owned(namespaces, "bob") = {}

\* C18: GetKubeconfig returns an error when the secret is absent and when
\* it has no "kubeconfig" field, and a credential-fetch request answered
\* 200 carries the secret's data.
C18_MissingSecretFails ==
    /\ [](\A n \in env.names : \A sec \in {"absent", "nofield"} :
            Exists(namespaces, NamespaceOf(n))
            => GetKubeconfig(namespaces, n, sec, TRUE).err # Nil)
    /\ [][(Finished(last', "kubeconfig") /\ last'.status = "200")
          => last'.data \notin {Nil, ""}]_vars

\* An entry of a listing says "terminating" exactly when the store does.
Live(nss, t) == (t.deletionTimestamp # Nil) = Terminating(nss, t.namespace)

\* C19: every entry of ListTeamspaces and of ListTeamspacesByOwner, and
\* every entry of a list response, has a deletionTimestamp exactly when its
\* namespace has one in the store the call reads.
C19_LiveDeletionTimestamp ==
    /\ [](/\ \A i \in 1..Len(ListTeamspaces(namespaces)) :
               Live(namespaces, ListTeamspaces(namespaces)[i])
          /\ \A o \in env.logins :
               \A i \in 1..Len(ListTeamspacesByOwner(namespaces, o)) :
                  Live(namespaces, ListTeamspacesByOwner(namespaces, o)[i]))
    /\ [][(Started(last', "list") /\ last'.status = "200")
          => \A i \in 1..Len(last'.body) : Live(namespaces', last'.body[i])]_vars

C19_Witness ==
    /\ Started(last, "list") /\ last.status = "200"
    /\ \E i, j \in 1..Len(last.body) :
          /\ last.body[i].deletionTimestamp # Nil
          /\ last.body[j].deletionTimestamp = Nil

\* The namespaces of the store that carry the label teamspace=true.
Labelled(nss) == {ns \in DOMAIN nss : Label(nss[ns], "teamspace") = "true"}

\* C20: ListTeamspaces has one entry for each namespace labelled
\* teamspace=true and no other; ListTeamspacesByOwner(o) is its entries
\* whose namespace has owner label o; a list response holds the requester's
\* own teamspaces, all of them, and nothing else.
C20_ListsExact ==
    /\ [](LET all == ListTeamspaces(namespaces)
          IN  /\ {all[i].namespace : i \in 1..Len(all)} = Labelled(namespaces)
              /\ Len(all) = Cardinality(Labelled(namespaces))
              /\ \A o \in env.logins \cup {"mallory"} :
                   LET Mine(t) == Label(namespaces[t.namespace], "owner") = o
                   IN  ListTeamspacesByOwner(namespaces, o) = SelectSeq(all, Mine))
    /\ [][(Started(last', "list") /\ last'.status = "200")
          => (/\ \A i \in 1..Len(last'.body) :
                   /\ Label(namespaces'[last'.body[i].namespace], "owner")
                        = last'.cookie.username
                   /\ last'.body[i].owner = last'.cookie.username
              /\ {last'.body[i].namespace : i \in 1..Len(last'.body)}
                   = Owned(namespaces', last'.cookie.username)
              /\ Len(last'.body)
                   = Cardinality(Owned(namespaces', last'.cookie.username)))]_vars

C20_Witness ==
    /\ Started(last, "list") /\ last.status = "200"
    /\ last.cookie.username = "alice"
    /\ Len(last.body) = 1
    /\ Owned(namespaces, "bob") # {}
    /\ Labelled(namespaces) # DOMAIN namespaces

\* C21: every namespace made by a create carries, for as long as it is in
\* the store, the owner that create was given, and no step changes the
\* labels of a namespace.
C21_OwnerImmutable ==
    /\ [](\A ns \in DOMAIN creator :
            Exists(namespaces, ns) /\ Label(namespaces[ns], "owner") = creator[ns])
    /\ [][\A ns \in DOMAIN namespaces :
            Exists(namespaces', ns)
            => namespaces'[ns].labels = namespaces[ns].labels]_vars

C21_Witness ==
    /\ Finished(last, "delete") /\ last.status = "204"
    /\ Terminating(namespaces, NamespaceOf(last.name))
    /\ creator[NamespaceOf(last.name)] = "bob"
    /\ \E q \in BagToSet(req) :
          q.pc = "create" /\ q.name = last.name /\ q.username = "alice"

\* A namespace as CreateTeamspace sends it: the three labels and the two
\* annotations.
Whole(obj) ==
    /\ DOMAIN obj.labels = {"teamspace", "owner", "name"}
    /\ obj.labels.teamspace = "true"
    /\ DOMAIN obj.annotations = {"release", "feature-set"}

\* C22: every namespace in the store that is not a system namespace is
\* whole, and a create request ends either answered 201 with one whole
\* namespace added or answered 500 with the store as it was.
C22_CreateAtomic ==
    /\ [](\A ns \in DOMAIN namespaces \ DOMAIN SystemNamespaces :
            Whole(namespaces[ns]))
    /\ [][Finished(last', "create")
          => \/ /\ last'.status = "201"
                /\ DOMAIN namespaces' = DOMAIN namespaces \cup {NamespaceOf(last'.name)}
                /\ ~Exists(namespaces, NamespaceOf(last'.name))
                /\ Whole(namespaces'[NamespaceOf(last'.name)])
                /\ \A ns \in DOMAIN namespaces : namespaces'[ns] = namespaces[ns]
             \/ /\ last'.status = "500"
                /\ namespaces' = namespaces]_vars

C22_Witness ==
    /\ Finished(last, "create") /\ last.status = "500"
    /\ ~Exists(namespaces, NamespaceOf(last.name))
    /\ Owned(namespaces, last.cookie.username) # {}

\* C23: a delete request that ends in a failure, at its ownership check or
\* at its delete call, leaves the store as it was and leaves nothing of
\* itself under way.
C23_FailedDeleteNoEffect ==
    [][(last'.kind = "delete" /\ last'.status \notin {Nil, "204"})
       => (/\ namespaces' = namespaces
           /\ \A q \in BagToSet(req') : CopiesIn(q, req') <= CopiesIn(q, req))]_vars

C23_Witness ==
    /\ Finished(last, "delete") /\ last.status = "500"
    /\ Exists(namespaces, NamespaceOf(last.name))
    /\ ~Terminating(namespaces, NamespaceOf(last.name))
    /\ Label(namespaces[NamespaceOf(last.name)], "owner") = last.cookie.username

\* Every namespace made by a create has a non-empty name label, a non-empty
\* owner label, and the name "teamspace-" followed by its name label.
NamedByLabel ==
    \A ns \in DOMAIN creator :
        /\ Label(namespaces[ns], "name") # ""
        /\ Label(namespaces[ns], "owner") # ""
        /\ ns = "teamspace-" \o Label(namespaces[ns], "name")

\* C24 (as stated): a create request with an empty name is answered 400 and
\* makes no namespace, now or later; and every namespace made by a create
\* is named by its label.
C24_EmptyNameInvalid ==
    /\ []NamedByLabel
    /\ [][(/\ Started(last', "create")
           /\ Authenticated(last'.cookie)
           /\ last'.name = "")
          => (/\ last'.status = "400"
              /\ req' = req
              /\ namespaces' = namespaces)]_vars

\* C24 (amended): a create request with an empty name makes no namespace,
\* now or later; it is answered 400 when its owner holds fewer than 3
\* namespaces and 403 otherwise; and every namespace made by a create is
\* named by its label.
C24_EmptyNameRejected ==
    /\ []NamedByLabel
    /\ [][(/\ Started(last', "create")
           /\ Authenticated(last'.cookie)
           /\ last'.name = "")
          => (/\ last'.status
                   = IF Cardinality(Owned(namespaces, last'.cookie.username)) < 3
                     THEN "400" ELSE "403"
              /\ last'.call.op # "create"
              /\ req' = req
              /\ namespaces' = namespaces)]_vars

C24_Witness ==
    /\ Started(last, "create") /\ last.name = ""
    /\ last.status = "403"
    /\ Cardinality(Owned(namespaces, last.cookie.username)) = 3
    /\ NamedByLabel

\* The store with the namespaces of every other name taken away.
Only(nss, n) == [k \in DOMAIN nss \cap {NamespaceOf(n)} |-> nss[k]]

\* Two outcomes of a write agree on the response and on the name's
\* namespace.
SameFor(n, x, y) ==
    /\ x.res = y.res
    /\ Exists(x.nss, NamespaceOf(n)) = Exists(y.nss, NamespaceOf(n))
    /\ Exists(x.nss, NamespaceOf(n))
       => x.nss[NamespaceOf(n)] = y.nss[NamespaceOf(n)]

\* The delete, ownership-check and secret-read steps for name n, and the
\* write of a create, come out on the store as they do on the store without
\* the other names' namespaces.
OthersUnseen(n, u, ok) ==
    LET v == LoggedIn(u)
        alone == Only(namespaces, n)
        c == InFlight("create", v, n, "v1", "Default")
        d == InFlight("delete", v, n, "", "")
    IN  /\ IsTeamspaceOwner(namespaces, n, u, ok) = IsTeamspaceOwner(alone, n, u, ok)
        /\ deleteCheck(namespaces, v, n, ok) = deleteCheck(alone, v, n, ok)
        /\ kubeconfigCheck(namespaces, v, n, ok) = kubeconfigCheck(alone, v, n, ok)
        /\ SameFor(n, createCall(namespaces, c, ok, Epoch),
                   createCall(alone, c, ok, Epoch))
        /\ SameFor(n, deleteCall(namespaces, d, ok), deleteCall(alone, d, ok))
        /\ \A sec \in {"absent", "nofield", "data"} :
             kubeconfigCall(namespaces, d, sec, ok) = kubeconfigCall(alone, d, sec, ok)

\* The checks of a create for name n come out on the store as they do on
\* the store without the other names' namespaces.
CreateCheckUnseen(n, u, ok) ==
    LET v == LoggedIn(u)
        body == [valid |-> TRUE, name |-> n, release |-> "v1", featureSet |-> "Default"]
    IN  createCheck(namespaces, v, body, ok) = createCheck(Only(namespaces, n), v, body, ok)

\* A request step for one name leaves the namespaces of the other names as
\* they were.
OthersUntouched ==
    \A n \in env.names :
        (last'.kind \in {"create", "delete", "kubeconfig", "list"} /\ last'.name # n)
        => /\ Exists(namespaces', NamespaceOf(n)) = Exists(namespaces, NamespaceOf(n))
           /\ Exists(namespaces, NamespaceOf(n))
              => namespaces'[NamespaceOf(n)] = namespaces[NamespaceOf(n)]

\* C25 (as stated): every operation on a name comes out the same, and
\* leaves the name's namespace the same, whatever has been done and is
\* being done on other names.
C25_NamesIndependent ==
    /\ [](\A n \in env.names : \A u \in env.logins : \A ok \in StoreAnswers :
            OthersUnseen(n, u, ok) /\ CreateCheckUnseen(n, u, ok))
    /\ [][OthersUntouched]_vars

\* C25 (amended): the same, except that the quota check of a create counts
\* the owner's namespaces of every name: the checks of a create come out
\* the same only while the owner holds fewer than 3 namespaces.
C25_NamesIndependentButQuota ==
    /\ [](\A n \in env.names : \A u \in env.logins : \A ok \in StoreAnswers :
            /\ OthersUnseen(n, u, ok)
            /\ Cardinality(Owned(namespaces, u)) < 3 => CreateCheckUnseen(n, u, ok))
    /\ [][OthersUntouched]_vars

C25_Witness ==
    /\ Finished(last, "delete") /\ last.status = "204" /\ last.name = "a"
    /\ Exists(namespaces, "teamspace-b")
    /\ ~Terminating(namespaces, "teamspace-b")
    /\ Label(namespaces["teamspace-b"], "owner") # last.cookie.username
    /\ \E q \in BagToSet(req) : q.name = "b"

\* The request is a create of a name whose namespace is in the store,
\* active, with the requester as owner: a retry of a create that succeeded.
Retry(e, nss) ==
    /\ e.kind = "create" /\ e.name # ""
    /\ Authenticated(e.cookie)
    /\ Exists(nss, NamespaceOf(e.name))
    /\ ~Terminating(nss, NamespaceOf(e.name))
    /\ Label(nss[NamespaceOf(e.name)], "owner") = e.cookie.username

\* The create call of a retry returns AlreadyExists, the request is
\* answered 500 and the store is as it was.
RetryCollides ==
    (Finished(last', "create") /\ Retry(last', namespaces))
    => (/\ CreateTeamspace(namespaces, last'.name, last'.cookie.username,
                           "v1", "Default", TRUE, Epoch).err = "AlreadyExists"
        /\ last'.status = "500"
        /\ namespaces' = namespaces)

\* C26 (as stated): a retry goes on to the create call however many
\* namespaces its owner holds, and the call collides.
C26_RetryCollides ==
    [][/\ (Started(last', "create") /\ Retry(last', namespaces))
          => (last'.status = Nil /\ namespaces' = namespaces)
       /\ RetryCollides]_vars

\* C26 (amended): a retry goes on to the create call, which collides, when
\* its owner holds fewer than 3 namespaces; otherwise it is answered 403
\* before the call; the store is as it was in both cases.
C26_RetryCollidesOrQuota ==
    [][/\ (Started(last', "create") /\ Retry(last', namespaces))
          => (/\ last'.status
                   = IF Cardinality(Owned(namespaces, last'.cookie.username)) < 3
                     THEN Nil ELSE "403"
              /\ namespaces' = namespaces)
       /\ RetryCollides]_vars

C26_Witness ==
    /\ Started(last, "create") /\ Retry(last, namespaces)
    /\ last.status = "403"
    /\ Cardinality(Owned(namespaces, last.cookie.username)) = 3

\* C27: a create request that ended in a name collision has a status other
\* than the one the same request ends with when the store cannot be
\* reached, and a delete request for a missing teamspace has a status
\* other than the one it has when the store cannot be reached.
C27_ErrorsToldApart ==
    /\ (/\ Finished(last, "create")
        /\ last.body = Failure("Failed to create teamspace", "AlreadyExists"))
       => last.status
            # createCall(namespaces,
                         InFlight("create", last.cookie, last.name, "v1", "Default"),
                         FALSE, Epoch).res.status
    /\ (/\ Started(last, "delete")
        /\ last.body = Failure("Failed to check teamspace ownership", "NotFound"))
       => last.status
            # deleteCheck(namespaces, last.cookie, last.name, FALSE).status

\* An entry of the client's list is terminating: its flag is set or it
\* carries a deletionTimestamp.
TerminatingEntries(teamspaces) ==
    {i \in 1..Len(teamspaces) :
        teamspaces[i].isDeleting = TRUE \/ teamspaces[i].deletionTimestamp # Nil}

\* C28: the client's interval is set exactly while its list holds a
\* terminating entry, and every periodic fetch is issued from a list that
\* holds one: the interval is set by the step that brings the first such
\* entry and cleared by the step that leaves none.
C28_PollsWhileTerminating ==
    /\ [](app.interval <=> TerminatingEntries(app.teamspaces) # {})
    /\ [][/\ last'.kind = "poll" => TerminatingEntries(app.teamspaces) # {}
          /\ (TerminatingEntries(app.teamspaces) = {}
              /\ TerminatingEntries(app'.teamspaces) # {}) => app'.interval
          /\ (last'.kind = "fetched" /\ TerminatingEntries(app'.teamspaces) = {})
             => ~app'.interval]_vars

C28_Witness ==
    /\ last.kind = "fetched"
    /\ app.teamspaces # <<>>
    /\ TerminatingEntries(app.teamspaces) = {}
    /\ ~app.interval
    /\ \E c \in app.calls : c.op = "fetch" /\ c.name = ""

\* The client has marked a delete of this name and the delete has not
\* failed: its request is awaited, or was answered 2xx (the refresh that
\* follows it included).
DeleteMarked(name) ==
    \E c \in app.calls :
        /\ c.name = name
        /\ \/ c.op = "delete" /\ c.status \in {Nil, "204"}
           \/ c.op = "fetch"

\* C29: an entry of the client's list has isDeleting true when it carries a
\* deletionTimestamp or a delete of its name is marked and has not failed;
\* and an entry whose name was isDeleting before a refresh is isDeleting
\* after it.
C29_IsDeletingKept ==
    /\ [](\A i \in 1..Len(app.teamspaces) :
            (\/ app.teamspaces[i].deletionTimestamp # Nil
             \/ DeleteMarked(app.teamspaces[i].name))
            => app.teamspaces[i].isDeleting = TRUE)
    /\ [][last'.kind = "fetched"
          => \A i \in 1..Len(app'.teamspaces) :
                (\E p \in find(app.teamspaces, app'.teamspaces[i].name) :
                    p.isDeleting = TRUE)
                => app'.teamspaces[i].isDeleting = TRUE]_vars

\* C30: when a create request has just succeeded, the createdAt of the
\* Teamspace it returned is the createdAt that ListTeamspaces and
\* ListTeamspacesByOwner report for its namespace.
C30_CreatedAtFromPlatform ==
    (Finished(last, "create") /\ last.status = "201") =>
        LET ns == NamespaceOf(last.name)
            all == ListTeamspaces(namespaces)
            own == ListTeamspacesByOwner(namespaces, last.cookie.username)
        IN  /\ \A i \in 1..Len(all) :
                 all[i].namespace = ns => all[i].createdAt = last.body[1].createdAt
            /\ \A i \in 1..Len(own) :
                 own[i].namespace = ns => own[i].createdAt = last.body[1].createdAt

\* The store calls a handler step can record: none, or one call of one
\* manager operation.
OneCall(e) ==
    \/ e.call = NoCall
    \/ /\ e.kind = "list" /\ e.call = Call("list", e.cookie.username)
    \/ /\ e.kind = "create"
       /\ e.call \in {Call("list", e.cookie.username),
                      Call("create", NamespaceOf(e.name))}
    \/ /\ e.kind = "delete"
       /\ e.call \in {Call("get", NamespaceOf(e.name)),
                      Call("delete", NamespaceOf(e.name))}
    \/ /\ e.kind = "kubeconfig"
       /\ e.call \in {Call("get", NamespaceOf(e.name)),
                      Call("getSecret", NamespaceOf(e.name))}

\* C31: a delete request that returns success leaves its namespace in the
\* store with a deletion marker (it does not wait for the teardown); every
\* handler step makes at most one store call, and a request that has made
\* its second call, failed or not, is answered and makes no other.
C31_DeleteDoesNotWait ==
    [][/\ (Finished(last', "delete") /\ last'.status = "204")
          => (/\ Terminating(namespaces', NamespaceOf(last'.name))
              /\ last'.call = Call("delete", NamespaceOf(last'.name)))
       /\ OneCall(last')
       /\ (last'.kind \in {"create", "delete", "kubeconfig"} /\ last'.browser = Nil)
          => (/\ last'.status # Nil
              /\ BagCardinality(req') = BagCardinality(req) - 1)
       /\ (last'.kind \in {"list", "create", "delete", "kubeconfig"}
           /\ last'.browser # Nil /\ last'.status # Nil)
          => req' = req]_vars

C31_Witness ==
    /\ Finished(last, "delete") /\ last.status = "204"
    /\ Terminating(namespaces, NamespaceOf(last.name))
    /\ BagCardinality(req) = 0

\* The query of a callback does not carry a code and the state stored in
\* the session.
BadQuery(v, q) == q.code = "" \/ q.state = "" \/ v.state = Nil \/ v.state # q.state

\* What HandleCallback leaves in the session of browser s for a query and
\* an answer of the identity provider.
AfterCallback(s, q, idp) ==
    CallbackResult(sessions[s], allowed, q.code, q.state,
                   idp.kind, idp.login, idp.teams).values

\* C32 (as stated): a callback whose query is bad leaves the session
\* unauthenticated, with no username and no access token.
C32_BadCallbackUnauthenticated ==
    \A s \in env.browsers, q \in CallbackQueries, idp \in IdpAnswers :
        BadQuery(sessions[s], q)
        => (/\ AfterCallback(s, q, idp).authenticated # "true"
            /\ AfterCallback(s, q, idp).username = Nil
            /\ AfterCallback(s, q, idp).access_token = Nil)

\* C32 (amended): a callback whose query is bad leaves the session as it
\* was, and a session becomes authenticated only in a callback answered
\* 307 whose session held a stored state.
C32_BadCallbackNoEffect ==
    /\ [](\A s \in env.browsers, q \in CallbackQueries, idp \in IdpAnswers :
            BadQuery(sessions[s], q) => AfterCallback(s, q, idp) = sessions[s])
    /\ [][\A s \in env.browsers :
            (sessions'[s].authenticated = "true" /\ sessions[s].authenticated # "true")
            => (/\ last'.kind = "callback" /\ last'.browser = s
                /\ last'.status = "307"
                /\ sessions[s].state # Nil)]_vars

C32_Witness ==
    /\ last.kind = "callback" /\ last.status = "400"
    /\ last.cookie.authenticated = "true"
    /\ last.cookie.state # Nil
    /\ sessions[last.browser] = last.cookie

Lifecycle == {"list", "create", "delete", "kubeconfig"}

\* C33: a logout leaves its session with no username, no access token and
\* authenticated = false, so that IsAuthenticated and GetUsername fail for
\* it; a lifecycle request of an unauthenticated session is answered 401
\* with no store call and no effect; and a session becomes authenticated
\* only by a callback answered 307 on a state that a login stored in it
\* (the logout has deleted the stored state).
C33_LogoutRefusesUntilLogin ==
    [][/\ last'.kind = "logout"
          => LET v == sessions'[last'.browser]
             IN  /\ v.username = Nil /\ v.access_token = Nil /\ v.state = Nil
                 /\ v.authenticated = "false"
                 /\ ~IsAuthenticated(v) /\ ~GetUsername(v).ok
       /\ (last'.kind \in Lifecycle /\ last'.browser # Nil
           /\ ~IsAuthenticated(sessions[last'.browser]))
          => (/\ last'.status = "401" /\ last'.call = NoCall
              /\ namespaces' = namespaces /\ req' = req)
       /\ \A s \in env.browsers :
            /\ (sessions[s].authenticated # "true" /\ sessions'[s].authenticated = "true")
               => (/\ last'.kind = "callback" /\ last'.browser = s
                   /\ last'.status = "307" /\ sessions[s].state # Nil)
            /\ (sessions[s].state = Nil /\ sessions'[s].state # Nil)
               => (last'.kind = "login" /\ last'.browser = s)]_vars

C33_Witness ==
    /\ last.kind \in Lifecycle /\ last.browser # Nil
    /\ last.cookie = LogoutValues(last.cookie)
    /\ last.status = "401"

\* C34: a create request is answered by the first check that fails, in
\* the order: the session (401), the listing of the owner's namespaces
\* (500 when the store call fails, 403 when it holds 3 or more), the body
\* and the name (400); otherwise it goes on to the create call. A create
\* request that fails, at a check or at the create call, leaves the store
\* as it was.
C34_CreateChecksInOrder ==
    [][/\ Started(last', "create")
          => LET v == last'.cookie
                 listFailed == last'.body
                                 = Failure("Unable to check existing teamspaces",
                                           "Unavailable")
             IN  /\ last'.status
                      = IF ~Authenticated(v) THEN "401"
                        ELSE IF listFailed THEN "500"
                        ELSE IF Cardinality(Owned(namespaces, v.username)) >= 3
                             THEN "403"
                        ELSE IF last'.name = "" THEN "400"
                        ELSE Nil
                 /\ namespaces' = namespaces
       /\ (Finished(last', "create") /\ last'.status # "201")
          => namespaces' = namespaces]_vars

C34_Witness ==
    /\ Started(last, "create") /\ Authenticated(last.cookie)
    /\ last.name = ""
    /\ Cardinality(Owned(namespaces, last.cookie.username)) = 3
    /\ last.status = "403"

\* The client holds the failure response of a delete it has not handled yet.
DeleteFailed == \E c \in app.calls :
                  c.op = "delete" /\ c.pc = "answered" /\ c.status # "204"

====
